---- MODULE Spec2Model ----
(***************************************************************************)
(* Model of src/client/openai_responses.rs: the OpenAI "Responses" adapter *)
(* of aichat.  Three specifications share the module:                      *)
(*   SpecStream  openai_responses_streaming (the SSE reduction)            *)
(*   SpecBuild   openai_build_responses_body (the request body builder)    *)
(*   SpecSync    openai_responses / openai_extract_responses               *)
(* Strings the code inspects (names, argument text, message text) are      *)
(* sequences of one-character strings; an Option<T> is a sequence of       *)
(* length 0 (None) or 1 (Some).                                            *)
(* The file uses sse_stream, SseHandler, catch_error, ToolCall::new and    *)
(* MessageContent::to_text from other files of the crate; their behaviour  *)
(* is taken from the design document.  MessageContent::Array and the id    *)
(* and usage members of a reply are left out.                              *)
(***************************************************************************)
EXTENDS Integers, Sequences, FiniteSets, TLC

VARIABLES
    \* ---- openai_responses_streaming ----
    consumed,                         \* SSE messages handed to `handle` so far
    current_tool_call_id,
    current_tool_function_name,
    current_tool_function_arguments,
    tool_calls,                       \* Vec<ToolCall> of completed calls
    sink,                             \* calls made on the SseHandler, in order
    stream_result,                    \* "pending" | "Ok" | "ErrParse" | "ErrSink" | "ErrTransport" | "Panic"
    \* ---- openai_build_responses_body ----
    data,                             \* the ChatCompletionsData handed to the builder
    body,                             \* the JSON body it returned
    build_pc,                         \* "idle" | "start" | "built"
    \* ---- openai_responses / openai_extract_responses ----
    reply,                            \* the JSON value of the reply
    status,                           \* the HTTP status of the reply
    sync_result,                      \* the Result the call returned
    sync_pc                           \* "idle" | "start" | "extracted" | "responded"

stream_vars == <<consumed, current_tool_call_id, current_tool_function_name,
                 current_tool_function_arguments, tool_calls, sink, stream_result>>

build_vars == <<data, body, build_pc>>

sync_vars == <<reply, status, sync_result, sync_pc>>

vars == <<stream_vars, build_vars, sync_vars>>

----------------------------------------------------------------------------
(* Bounds *)

\* number of SSE messages the transport delivers in one run
MaxEvents == 3

\* number of messages of a conversation handed to the builder
MaxMessages == 2

\* entries of a reply's output array, and parts of one entry's content array
MaxOutputs == 2

MaxContentParts == 1

----------------------------------------------------------------------------
(* Option and string helpers *)

None == <<>>

Some(v) == <<v>>

IsSome(o) == o # <<>>

Unwrap(o) == o[1]

RECURSIVE Concat(_)
\* concatenation of a sequence of strings, in order
Concat(ss) == IF ss = <<>> THEN <<>> ELSE Head(ss) \o Concat(Tail(ss))

----------------------------------------------------------------------------
(* serde_json::from_str on the argument text.  The model's JSON texts are  *)
(* over the characters "[" and "]": a text is valid JSON iff it is n >= 1  *)
(* opening brackets followed by n closing brackets (the nested array       *)
(* [[..[]..]]); anything else, the empty text included, is a parse error.  *)
(* A parsed array is represented by its nesting depth.                     *)

JsonNull == [json |-> "null", depth |-> 0]

JsonArray(n) == [json |-> "array", depth |-> n]

RECURSIVE CountLeading(_, _)
CountLeading(s, c) ==
    IF s # <<>> /\ Head(s) = c THEN 1 + CountLeading(Tail(s), c) ELSE 0

\* Result<Value>: None on a parse error, Some(value) otherwise
serde_json_from_str(s) ==
    LET n == CountLeading(s, "[")
        rest == SubSeq(s, n + 1, Len(s))
    IN  IF n >= 1 /\ Len(rest) = n /\ CountLeading(rest, "]") = n
        THEN Some(JsonArray(n))
        ELSE None

\* serde_json::from_str(..).unwrap_or_default(): Value::default() is Null
ParseArgsOrDefault(s) ==
    LET r == serde_json_from_str(s) IN IF IsSome(r) THEN Unwrap(r) ELSE JsonNull

\* ToolCall::new(name, arguments, id)
ToolCallNew(name, arguments, id) == [name |-> name, arguments |-> arguments, id |-> id]

----------------------------------------------------------------------------
(* SSE messages *)

\* item ids; "" is also the initial value of current_tool_call_id (line 104)
ItemIds == {"", "a"}

NameFragments == {<<"g">>, <<"w">>}

ArgsFragments == {<<"[">>, <<"]">>}

TextFragments == {"h", "i"}

Opt(S) == {None} \cup {Some(v) : v \in S}

\* a part object that has both keys; None is a value that is not a string
Parts == [function_name : Opt(NameFragments), args_chunk : Opt(ArgsFragments),
          missing_key : {FALSE}]

\* a part object without the key "function_name": `part` is a serde_json Map,
\* and indexing a Map with a key it does not hold panics (line 147)
PartWithoutName ==
    [function_name |-> None, args_chunk |-> Some(<<"[">>), missing_key |-> TRUE]

\* message.data == "[DONE]"
DoneMessage == [data |-> "[DONE]", type |-> "", delta |-> None, item_id |-> None, part |-> None]

\* message.data that serde_json cannot parse
MalformedMessage == [data |-> "malformed", type |-> "", delta |-> None, item_id |-> None, part |-> None]

TextDeltaMessages ==
    [data : {"json"}, type : {"response.output_text.delta"}, delta : Opt(TextFragments),
     item_id : {None}, part : {None}]

ToolDeltaMessages ==
    [data : {"json"}, type : {"response.tool_code.delta"}, delta : {None},
     item_id : Opt(ItemIds), part : Opt(Parts \cup {PartWithoutName})]

\* a JSON event of a type the reducer does not know
OtherMessage == [data |-> "json", type |-> "response.created", delta |-> None, item_id |-> None, part |-> None]

Messages == {DoneMessage, MalformedMessage, OtherMessage} \cup TextDeltaMessages \cup ToolDeltaMessages

----------------------------------------------------------------------------
(* The `handle` closure of openai_responses_streaming.  acc is the closure's *)
(* captured state [id, name, args, calls]; the result carries the new state, *)
(* the text handed to handler.text (if any) and the closure's return:        *)
(* "true" (Ok(true)), "false" (Ok(false)), "ErrParse", "ErrSink", "Panic".   *)

Acc(id, name, args, calls) == [id |-> id, name |-> name, args |-> args, calls |-> calls]

\* lines 110-117: the flush on the terminator
FlushOnDone(acc) ==
    IF acc.name # <<>>
    THEN Append(acc.calls, ToolCallNew(acc.name, ParseArgsOrDefault(acc.args), Some(acc.id)))
    ELSE acc.calls

\* the flush given up when the argument text does not parse
FlushOnIdChange_ParsedOnly(acc) ==
    IF acc.name # <<>> /\ IsSome(serde_json_from_str(acc.args))
    THEN Append(acc.calls, ToolCallNew(acc.name, ParseArgsOrDefault(acc.args), Some(acc.id)))
    ELSE acc.calls

\* lines 133-140: the flush when the item id changes
FlushOnIdChange(acc) ==
    IF acc.name # <<>>
    THEN Append(acc.calls, ToolCallNew(acc.name, ParseArgsOrDefault(acc.args), Some(acc.id)))
    ELSE acc.calls

\* the item id switched without clearing the accumulated name and arguments
OnItemId_NoClear(acc, item_id) ==
    IF IsSome(item_id) /\ acc.id # Unwrap(item_id)
    THEN Acc(Unwrap(item_id), acc.name, acc.args, FlushOnIdChange(acc))
    ELSE acc

\* name and arguments cleared only when a call was flushed
OnItemId_ClearOnFlush(acc, item_id) ==
    IF IsSome(item_id) /\ acc.id # Unwrap(item_id)
    THEN IF acc.name # <<>>
         THEN Acc(Unwrap(item_id), <<>>, <<>>, FlushOnIdChange(acc))
         ELSE Acc(Unwrap(item_id), acc.name, acc.args, acc.calls)
    ELSE acc

\* lines 131-145
OnItemId(acc, item_id) ==
    IF IsSome(item_id) /\ acc.id # Unwrap(item_id)
    THEN Acc(Unwrap(item_id), <<>>, <<>>, FlushOnIdChange(acc))
    ELSE acc

\* fragments put in front of the accumulated text instead of behind it
OnPart_Prepend(acc, part) ==
    IF IsSome(part)
    THEN LET p == Unwrap(part)
             name == IF IsSome(p.function_name)
                     THEN Unwrap(p.function_name) \o acc.name ELSE acc.name
             args == IF IsSome(p.args_chunk)
                     THEN Unwrap(p.args_chunk) \o acc.args ELSE acc.args
         IN  Acc(acc.id, name, args, acc.calls)
    ELSE acc

\* lines 146-153
OnPart(acc, part) ==
    IF IsSome(part)
    THEN LET p == Unwrap(part)
             name == IF IsSome(p.function_name)
                     THEN acc.name \o Unwrap(p.function_name) ELSE acc.name
             args == IF IsSome(p.args_chunk)
                     THEN acc.args \o Unwrap(p.args_chunk) ELSE acc.args
         IN  Acc(acc.id, name, args, acc.calls)
    ELSE acc

HandleResult(ret, acc, text) == [ret |-> ret, acc |-> acc, text |-> text]

\* the terminator handled without stopping the reduction
OnDone_NoStop(acc) ==
    HandleResult("false", Acc(acc.id, acc.name, acc.args, FlushOnDone(acc)), None)

\* lines 109-119: message.data == "[DONE]"
OnDone(acc) ==
    HandleResult("true", Acc(acc.id, acc.name, acc.args, FlushOnDone(acc)), None)

\* a text delta swallowed instead of forwarded
OnTextDelta_Dropped(acc, message, sink_ok) == HandleResult("false", acc, None)

\* lines 125-129; sink_ok is the outcome of handler.text(text)
OnTextDelta(acc, message, sink_ok) ==
    IF IsSome(message.delta)
    THEN HandleResult(IF sink_ok THEN "false" ELSE "ErrSink", acc, message.delta)
    ELSE HandleResult("false", acc, None)

\* lines 130-154
OnToolDelta(acc, message) ==
    IF IsSome(message.part) /\ Unwrap(message.part).missing_key
    THEN HandleResult("Panic", OnItemId(acc, message.item_id), None)
    ELSE HandleResult("false", OnPart(OnItemId(acc, message.item_id), message.part), None)

\* a payload that does not parse skipped like an unknown event
handle_SkipMalformed(acc, message, sink_ok) ==
    IF message.data = "[DONE]" THEN OnDone(acc)
    ELSE IF message.data # "json" THEN HandleResult("false", acc, None)
    ELSE IF message.type = "response.output_text.delta" THEN OnTextDelta(acc, message, sink_ok)
    ELSE IF message.type = "response.tool_code.delta" THEN OnToolDelta(acc, message)
    ELSE HandleResult("false", acc, None)

\* an event of an unknown type resetting the accumulator
handle_UnknownResets(acc, message, sink_ok) ==
    IF message.data = "[DONE]" THEN OnDone(acc)
    ELSE IF message.data # "json" THEN HandleResult("ErrParse", acc, None)
    ELSE IF message.type = "response.output_text.delta" THEN OnTextDelta(acc, message, sink_ok)
    ELSE IF message.type = "response.tool_code.delta" THEN OnToolDelta(acc, message)
    ELSE HandleResult("false", Acc(acc.id, <<>>, <<>>, acc.calls), None)

\* lines 108-158
handle(acc, message, sink_ok) ==
    IF message.data = "[DONE]" THEN OnDone(acc)
    ELSE IF message.data # "json" THEN HandleResult("ErrParse", acc, None)
    ELSE IF message.type = "response.output_text.delta" THEN OnTextDelta(acc, message, sink_ok)
    ELSE IF message.type = "response.tool_code.delta" THEN OnToolDelta(acc, message)
    ELSE HandleResult("false", acc, None)

----------------------------------------------------------------------------
(* The sink (SseHandler) as the log of the calls made on it *)

SinkText(t) == [op |-> "text", text |-> t, call |-> None]

SinkToolCall(c) == [op |-> "tool_call", text |-> "", call |-> Some(c)]

RECURSIVE DeliverToolCalls(_, _)
\* lines 162-166: handler.tool_call for each completed call, in order
DeliverToolCalls(s, calls) ==
    IF calls = <<>> THEN s
    ELSE DeliverToolCalls(Append(s, SinkToolCall(Head(calls))), Tail(calls))

----------------------------------------------------------------------------
(* openai_responses_streaming driven by sse_stream *)

StreamIdle ==
    /\ consumed = <<>>
    /\ current_tool_call_id = ""
    /\ current_tool_function_name = <<>>
    /\ current_tool_function_arguments = <<>>
    /\ tool_calls = <<>>
    /\ sink = <<>>
    /\ stream_result = "idle"

BuildIdle == data = <<>> /\ body = <<>> /\ build_pc = "idle"

SyncIdle == reply = <<>> /\ status = 0 /\ sync_result = <<>> /\ sync_pc = "idle"

StreamInit ==
    /\ BuildIdle
    /\ SyncIdle
    /\ consumed = <<>>
    /\ current_tool_call_id = ""
    /\ current_tool_function_name = <<>>
    /\ current_tool_function_arguments = <<>>
    /\ tool_calls = <<>>
    /\ sink = <<>>
    /\ stream_result = "pending"

\* sse_stream after the closure returned: Ok(true) ends the loop and the call
\* returns Ok(()), Ok(false) reads on, an error is returned to the caller
SseStreamOutcome(ret) ==
    CASE ret = "true" -> "Ok"
      [] ret = "false" -> "pending"
      [] OTHER -> ret

\* the outcomes of handler.text, for the messages on which it is called
SinkOutcomes(message) ==
    IF message.data = "json" /\ message.type = "response.output_text.delta"
       /\ IsSome(message.delta)
    THEN BOOLEAN ELSE {TRUE}

CurrentAcc == Acc(current_tool_call_id, current_tool_function_name,
                  current_tool_function_arguments, tool_calls)

\* every completed call handed to the sink as soon as it is pushed
SseMessage_DeliverEarly(message, sink_ok) ==
    /\ stream_result = "pending"
    /\ Len(consumed) < MaxEvents
    /\ LET r == handle(CurrentAcc, message, sink_ok)
           forwarded == IF IsSome(r.text) THEN Append(sink, SinkText(Unwrap(r.text))) ELSE sink
       IN  /\ consumed' = Append(consumed, message)
           /\ current_tool_call_id' = r.acc.id
           /\ current_tool_function_name' = r.acc.name
           /\ current_tool_function_arguments' = r.acc.args
           /\ tool_calls' = r.acc.calls
           /\ sink' = DeliverToolCalls(forwarded,
                                       SubSeq(r.acc.calls, Len(tool_calls) + 1, Len(r.acc.calls)))
           /\ stream_result' = SseStreamOutcome(r.ret)
    /\ UNCHANGED <<build_vars, sync_vars>>

\* the completed calls delivered also when the closure returned an error
SseMessage_DeliverOnError(message, sink_ok) ==
    /\ stream_result = "pending"
    /\ Len(consumed) < MaxEvents
    /\ LET r == handle(CurrentAcc, message, sink_ok)
           forwarded == IF IsSome(r.text) THEN Append(sink, SinkText(Unwrap(r.text))) ELSE sink
       IN  /\ consumed' = Append(consumed, message)
           /\ current_tool_call_id' = r.acc.id
           /\ current_tool_function_name' = r.acc.name
           /\ current_tool_function_arguments' = r.acc.args
           /\ tool_calls' = r.acc.calls
           /\ sink' = IF SseStreamOutcome(r.ret) # "pending"
                      THEN DeliverToolCalls(forwarded, r.acc.calls) ELSE forwarded
           /\ stream_result' = SseStreamOutcome(r.ret)
    /\ UNCHANGED <<build_vars, sync_vars>>

\* sse_stream hands one message to `handle`; on Ok(true) it stops reading, on an
\* error the `?` of line 160 returns it, and after the loop lines 162-168 run
SseMessage(message, sink_ok) ==
    /\ stream_result = "pending"
    /\ Len(consumed) < MaxEvents
    /\ LET r == handle(CurrentAcc, message, sink_ok)
           forwarded == IF IsSome(r.text) THEN Append(sink, SinkText(Unwrap(r.text))) ELSE sink
       IN  /\ consumed' = Append(consumed, message)
           /\ current_tool_call_id' = r.acc.id
           /\ current_tool_function_name' = r.acc.name
           /\ current_tool_function_arguments' = r.acc.args
           /\ tool_calls' = r.acc.calls
           /\ sink' = IF SseStreamOutcome(r.ret) = "Ok"
                      THEN DeliverToolCalls(forwarded, r.acc.calls) ELSE forwarded
           /\ stream_result' = SseStreamOutcome(r.ret)
    /\ UNCHANGED <<build_vars, sync_vars>>

\* the event stream ends without a terminator: sse_stream returns Ok(())
SseStreamEnd ==
    /\ stream_result = "pending"
    /\ sink' = DeliverToolCalls(sink, tool_calls)
    /\ stream_result' = "Ok"
    /\ UNCHANGED <<consumed, current_tool_call_id, current_tool_function_name,
                   current_tool_function_arguments, tool_calls, build_vars, sync_vars>>

\* the transport reports an error: sse_stream returns it
SseTransportError ==
    /\ stream_result = "pending"
    /\ stream_result' = "ErrTransport"
    /\ UNCHANGED <<consumed, current_tool_call_id, current_tool_function_name,
                   current_tool_function_arguments, tool_calls, sink, build_vars, sync_vars>>

StreamNext ==
    \/ \E message \in Messages :
          \E sink_ok \in SinkOutcomes(message) : SseMessage(message, sink_ok)
    \/ SseStreamEnd
    \/ SseTransportError

SpecStream == StreamInit /\ [][StreamNext]_vars

----------------------------------------------------------------------------
(* openai_build_responses_body: conversations *)

\* the reserved prefix "response_id:" of line 191
Marker == <<"r", "e", "s", "p", "o", "n", "s", "e", "_", "i", "d", ":">>

\* the message texts conversations are made of
Texts ==
    { <<>>, <<"x">>, <<"y">>, <<" ", "x">>,
      SubSeq(Marker, 1, Len(Marker) - 1),
      Marker, Marker \o <<"x">>, Marker \o <<" ", "y", " ">> }

ToolResult(id, output) == [call_id |-> id, output |-> output]

ToolResultLists ==
    { <<ToolResult("c1", "o1")>>, <<ToolResult("c1", "o1"), ToolResult("c2", "o2")>> }

\* MessageContent::Text(text)
TextContent(t) == [kind |-> "Text", text |-> t, tool_results |-> <<>>]

\* MessageContent::ToolCalls(..) with its tool_results
ToolCallsContent(rs) == [kind |-> "ToolCalls", text |-> <<>>, tool_results |-> rs]

Contents == {TextContent(t) : t \in Texts} \cup {ToolCallsContent(rs) : rs \in ToolResultLists}

Roles == {"System", "User", "Assistant", "Tool"}

ChatMessages == [role : Roles, content : Contents]

SeqsUpTo(S, n) == UNION { [1..k -> S] : k \in 0..n }

Conversations == SeqsUpTo(ChatMessages, MaxMessages)

ChatCompletionsData ==
    [messages : Conversations,
     temperature : {None, Some(0)},
     top_p : {None, Some(1)},
     functions : {None, Some(<<"fn">>)},
     stream : BOOLEAN]

\* model.real_name()
ModelName == "gpt"

----------------------------------------------------------------------------
(* openai_build_responses_body: the function *)

StartsWith(s, prefix) == Len(s) >= Len(prefix) /\ SubSeq(s, 1, Len(prefix)) = prefix

\* str::strip_prefix(prefix).unwrap()
StripPrefix(s, prefix) == SubSeq(s, Len(prefix) + 1, Len(s))

RECURSIVE TrimStart(_)
TrimStart(s) == IF s # <<>> /\ Head(s) = " " THEN TrimStart(Tail(s)) ELSE s

RECURSIVE TrimEnd(_)
TrimEnd(s) ==
    IF s # <<>> /\ s[Len(s)] = " " THEN TrimEnd(SubSeq(s, 1, Len(s) - 1)) ELSE s

\* str::trim
Trim(s) == TrimEnd(TrimStart(s))

\* MessageContent::to_text
to_text(content) == IF content.kind = "Text" THEN content.text ELSE <<>>

\* the locals of lines 180-183
BuildState(instructions, input, tool_outputs, previous_response_id) ==
    [instructions |-> instructions, input |-> input, tool_outputs |-> tool_outputs,
     previous_response_id |-> previous_response_id]

\* line 187
OnSystem(st, message) ==
    BuildState(st.instructions \o to_text(message.content), st.input, st.tool_outputs,
               st.previous_response_id)

\* line 188
OnUser(st, message) ==
    BuildState(st.instructions, st.input \o to_text(message.content), st.tool_outputs,
               st.previous_response_id)

\* the marker message's text rendered into the input as well
OnAssistant_MarkerIntoInput(st, message) ==
    IF message.content.kind = "Text"
    THEN IF StartsWith(message.content.text, Marker)
         THEN BuildState(st.instructions, st.input \o message.content.text, st.tool_outputs,
                         Some(Trim(StripPrefix(message.content.text, Marker))))
         ELSE BuildState(st.instructions, st.input \o message.content.text, st.tool_outputs,
                         st.previous_response_id)
    ELSE st

\* lines 189-197
OnAssistant(st, message) ==
    IF message.content.kind = "Text"
    THEN IF StartsWith(message.content.text, Marker)
         THEN BuildState(st.instructions, st.input, st.tool_outputs,
                         Some(Trim(StripPrefix(message.content.text, Marker))))
         ELSE BuildState(st.instructions, st.input \o message.content.text, st.tool_outputs,
                         st.previous_response_id)
    ELSE st

\* lines 198-207
OnTool(st, message) ==
    IF message.content.kind = "ToolCalls"
    THEN BuildState(st.instructions, st.input,
                    st.tool_outputs \o
                      [i \in 1..Len(message.content.tool_results) |->
                         [tool_call_id |-> message.content.tool_results[i].call_id,
                          output |-> message.content.tool_results[i].output]],
                    st.previous_response_id)
    ELSE st

\* lines 186-208: one iteration of the loop over the messages
OnChatMessage(st, message) ==
    CASE message.role = "System" -> OnSystem(st, message)
      [] message.role = "User" -> OnUser(st, message)
      [] message.role = "Assistant" -> OnAssistant(st, message)
      [] message.role = "Tool" -> OnTool(st, message)

RECURSIVE FoldMessages(_, _)
\* lines 185-209
FoldMessages(st, messages) ==
    IF messages = <<>> THEN st
    ELSE FoldMessages(OnChatMessage(st, Head(messages)), Tail(messages))

\* the input wrapped into an array of messages instead of a bare string
InputField_Array(input) == [type |-> "array", value |-> <<input>>]

\* line 213: "input": input, a String, so a JSON string
InputField(input) == [type |-> "string", value |-> input]

\* lines 234-244
ToolsField(functions) ==
    [i \in 1..Len(functions) |-> [type |-> "function", function |-> functions[i]]]

\* the stream flag written out whatever its value
StreamField_Always(stream) == Some(stream)

\* lines 231-233
StreamField(stream) == IF stream THEN Some(TRUE) ELSE None

\* lines 171-247; a field the code does not set is None
openai_build_responses_body(d, model) ==
    LET st == FoldMessages(BuildState(<<>>, <<>>, <<>>, None), d.messages)
    IN  [model |-> model,
         input |-> InputField(st.input),
         instructions |-> IF st.instructions # <<>> THEN Some(st.instructions) ELSE None,
         tool_outputs |-> IF st.tool_outputs # <<>> THEN Some(st.tool_outputs) ELSE None,
         previous_response_id |-> st.previous_response_id,
         temperature |-> d.temperature,
         top_p |-> d.top_p,
         stream |-> StreamField(d.stream),
         tools |-> IF IsSome(d.functions) THEN Some(ToolsField(Unwrap(d.functions))) ELSE None]

BuildInit ==
    /\ StreamIdle
    /\ SyncIdle
    /\ data \in ChatCompletionsData
    /\ body = <<>>
    /\ build_pc = "start"

BuildBody ==
    /\ build_pc = "start"
    /\ body' = openai_build_responses_body(data, ModelName)
    /\ build_pc' = "built"
    /\ UNCHANGED <<data, stream_vars, sync_vars>>

BuildNext == BuildBody

SpecBuild == BuildInit /\ [][BuildNext]_vars

----------------------------------------------------------------------------
(* Replies of the synchronous endpoint.  A reply is a JSON object of which  *)
(* the model keeps the members the extractor reads: "response" (an object   *)
(* with an "output" member) and a top-level "output"; a member that is      *)
(* absent, or not of the JSON type the code asks for, is None.              *)

PartTexts == {<<>>, <<"h">>, <<"i">>}

\* the "function" object of a tool_code part
FunctionObjects == { [name |-> Some(<<"f">>), args |-> Some(<<"[", "]">>)] }

ContentPart(type, text, id, function) ==
    [type |-> type, text |-> text, id |-> id, function |-> function]

ContentParts ==
    {ContentPart("output_text", t, None, None) : t \in Opt(PartTexts)}
    \cup {ContentPart("tool_code", None, id, Some(f)) : id \in Opt({"c"}), f \in FunctionObjects}
    \cup {ContentPart("tool_code", None, Some("c"), None)}
    \cup {ContentPart("reasoning", None, None, None)}

\* an entry of the output array: its "content" array, if it has one
OutputEntries == [content : Opt(SeqsUpTo(ContentParts, MaxContentParts))]

OutputArrays == SeqsUpTo(OutputEntries, MaxOutputs)

JsonReply(response, output) == [json |-> TRUE, response |-> response, output |-> output]

\* a body that is not JSON at all
NotJsonReply == [json |-> FALSE, response |-> None, output |-> None]

\* the shapes a reply takes: the output array under "response", or at the top level
ReplyShapes == {"response.output", "output"}

ReplyOf(shape, o) ==
    IF shape = "response.output" THEN JsonReply(Some([output |-> o]), None)
    ELSE JsonReply(None, o)

Statuses == {200, 299, 404}

----------------------------------------------------------------------------
(* openai_extract_responses and openai_responses *)

\* Result<ChatCompletionsOutput>
OkOutput(text, calls) ==
    [tag |-> "Ok", text |-> text, tool_calls |-> calls, error |-> "", payload |-> None]

ErrResult(error, payload) ==
    [tag |-> "Err", text |-> <<>>, tool_calls |-> <<>>, error |-> error, payload |-> payload]

Extracted(text, calls) == [text |-> text, tool_calls |-> calls]

\* lines 263-268
OnToolCodePart(ex, part) ==
    IF IsSome(part.id) /\ IsSome(part.function)
    THEN LET function == Unwrap(part.function)
             name == IF IsSome(function.name) THEN Unwrap(function.name) ELSE <<>>
             arguments == IF IsSome(function.args) THEN Unwrap(function.args) ELSE <<>>
         IN  Extracted(ex.text,
                       Append(ex.tool_calls,
                              ToolCallNew(name, ParseArgsOrDefault(arguments), Some(Unwrap(part.id)))))
    ELSE ex

\* lines 258-269
OnContentPart(ex, part) ==
    IF part.type = "output_text"
    THEN IF IsSome(part.text) THEN Extracted(ex.text \o Unwrap(part.text), ex.tool_calls) ELSE ex
    ELSE IF part.type = "tool_code" THEN OnToolCodePart(ex, part)
    ELSE ex

RECURSIVE FoldParts(_, _)
\* lines 257-270
FoldParts(ex, content) ==
    IF content = <<>> THEN ex
    ELSE FoldParts(OnContentPart(ex, Head(content)), Tail(content))

RECURSIVE FoldOutputs(_, _)
\* lines 255-272
FoldOutputs(ex, outputs) ==
    IF outputs = <<>> THEN ex
    ELSE FoldOutputs(IF IsSome(Head(outputs).content)
                     THEN FoldParts(ex, Unwrap(Head(outputs).content))
                     ELSE ex,
                     Tail(outputs))

\* lines 250-274: the walk over data["response"]["output"]
WalkReply(d) ==
    IF IsSome(d.response) /\ IsSome(Unwrap(d.response).output)
    THEN FoldOutputs(Extracted(<<>>, <<>>), Unwrap(Unwrap(d.response).output))
    ELSE Extracted(<<>>, <<>>)

\* the emptiness check with the test on the tool calls negated
IsEmptyResult_Negated(ex) == ex.text = <<>> /\ ex.tool_calls # <<>>

\* line 276
IsEmptyResult(ex) == ex.text = <<>> /\ ex.tool_calls = <<>>

\* lines 249-288
openai_extract_responses(d) ==
    LET ex == WalkReply(d)
    IN  IF IsEmptyResult(ex)
        THEN ErrResult("Invalid response data", Some(d))
        ELSE OkOutput(ex.text, ex.tool_calls)

\* StatusCode::is_success
IsSuccess(s) == 200 <= s /\ s <= 299

\* catch_error(&data, status): the error it raises for a failed status, if any
catch_error(d, s) == IF IsSuccess(s) THEN None ELSE Some(ErrResult("ApiError", Some(d)))

\* the result of catch_error not propagated
openai_responses_IgnoreStatus(d, s) ==
    IF ~ d.json THEN ErrResult("reqwest json", None) ELSE openai_extract_responses(d)

\* lines 83-96
openai_responses(d, s) ==
    IF ~ d.json THEN ErrResult("reqwest json", None)
    ELSE IF ~ IsSuccess(s) /\ IsSome(catch_error(d, s)) THEN Unwrap(catch_error(d, s))
    ELSE openai_extract_responses(d)

SyncInit ==
    /\ StreamIdle
    /\ BuildIdle
    /\ \/ \E shape \in ReplyShapes :
             \/ reply = ReplyOf(shape, None)
             \/ \E n \in 0..MaxOutputs : \E o \in [1..n -> OutputEntries] :
                    reply = ReplyOf(shape, Some(o))
       \/ reply = NotJsonReply
    /\ status = 0
    /\ sync_result = <<>>
    /\ sync_pc = "start"

\* openai_extract_responses called on a JSON value
Extract ==
    /\ sync_pc = "start"
    /\ reply.json
    /\ sync_result' = openai_extract_responses(reply)
    /\ sync_pc' = "extracted"
    /\ UNCHANGED <<reply, status, stream_vars, build_vars>>

\* openai_responses on a reply that came back with status s
Respond(s) ==
    /\ sync_pc = "start"
    /\ status' = s
    /\ sync_result' = openai_responses(reply, s)
    /\ sync_pc' = "responded"
    /\ UNCHANGED <<reply, stream_vars, build_vars>>

SyncNext ==
    \/ Extract
    \/ \E s \in Statuses : Respond(s)

SpecSync == SyncInit /\ [][SyncNext]_vars

----------------------------------------------------------------------------
(* What a run of the streaming reduction should produce, read off the      *)
(* consumed messages alone                                                 *)

IsToolDelta(m) == m.data = "json" /\ m.type = "response.tool_code.delta"

IsTextDelta(m) == m.data = "json" /\ m.type = "response.output_text.delta"

NameFragmentOf(m) ==
    IF IsSome(m.part) /\ IsSome(Unwrap(m.part).function_name)
    THEN Unwrap(Unwrap(m.part).function_name) ELSE <<>>

ArgsFragmentOf(m) ==
    IF IsSome(m.part) /\ IsSome(Unwrap(m.part).args_chunk)
    THEN Unwrap(Unwrap(m.part).args_chunk) ELSE <<>>

NameOfGroup(h) == Concat([i \in 1..Len(h) |-> NameFragmentOf(h[i])])

ArgsOfGroup(h) == Concat([i \in 1..Len(h) |-> ArgsFragmentOf(h[i])])

RECURSIVE SinkToolCalls(_)
\* the ToolCalls the sink received, in order
SinkToolCalls(s) ==
    IF s = <<>> THEN <<>>
    ELSE (IF Head(s).op = "tool_call" THEN <<Unwrap(Head(s).call)>> ELSE <<>>)
         \o SinkToolCalls(Tail(s))

RECURSIVE SinkTexts(_)
\* the text fragments the sink received, in order
SinkTexts(s) ==
    IF s = <<>> THEN <<>>
    ELSE (IF Head(s).op = "text" THEN <<Head(s).text>> ELSE <<>>) \o SinkTexts(Tail(s))

RECURSIVE DeltasOf(_)
\* the delta strings of the text-delta messages of h, in order
DeltasOf(h) ==
    IF h = <<>> THEN <<>>
    ELSE (IF IsTextDelta(Head(h)) /\ IsSome(Head(h).delta)
          THEN <<Unwrap(Head(h).delta)>> ELSE <<>>) \o DeltasOf(Tail(h))

\* the messages before the final [DONE] of a run that ended on the terminator
BeforeDone == SubSeq(consumed, 1, Len(consumed) - 1)

EndedOnDone ==
    /\ stream_result = "Ok"
    /\ consumed # <<>>
    /\ consumed[Len(consumed)] = DoneMessage

\* every message of h is a tool-call delta that carries an item id
AllToolDeltasWithId(h) ==
    \A i \in 1..Len(h) : IsToolDelta(h[i]) /\ IsSome(h[i].item_id)

SameItem(h) == \A i \in 1..Len(h) : h[i].item_id = h[1].item_id

\* length of the longest prefix of h whose messages carry the item id of h[1]
RECURSIVE RunLength(_, _)
RunLength(h, id) ==
    IF h # <<>> /\ Head(h).item_id = id THEN 1 + RunLength(Tail(h), id) ELSE 0

RECURSIVE GroupsOf(_)
\* h cut into its maximal runs of messages with one item id
GroupsOf(h) ==
    IF h = <<>> THEN <<>>
    ELSE LET n == RunLength(h, Head(h).item_id)
         IN  <<SubSeq(h, 1, n)>> \o GroupsOf(SubSeq(h, n + 1, Len(h)))

\* the ToolCall a group of deltas stands for
CallOfGroup(g) ==
    [name |-> NameOfGroup(g),
     arguments |-> IF IsSome(serde_json_from_str(ArgsOfGroup(g)))
                   THEN Unwrap(serde_json_from_str(ArgsOfGroup(g))) ELSE JsonNull,
     id |-> g[1].item_id]

C3_PendingCallFlushedAtStreamEnd ==
    (/\ stream_result = "Ok"
     /\ \A i \in 1..Len(consumed) : consumed[i] # DoneMessage
     /\ current_tool_function_name # <<>>)
    => /\ SinkToolCalls(sink) # <<>>
       /\ SinkToolCalls(sink)[Len(SinkToolCalls(sink))] =
            ToolCallNew(current_tool_function_name,
                        ParseArgsOrDefault(current_tool_function_arguments),
                        Some(current_tool_call_id))

\* C4: at every point of every run the text fragments the sink has received
\* are exactly the delta strings of the text-delta messages consumed so far,
\* in arrival order: each is forwarded while its own message is handled.
C4_TextForwardedInOrder == SinkTexts(sink) = DeltasOf(consumed)

\* two different fragments forwarded, the second not lost behind a tool delta
C4_Witness ==
    /\ stream_result = "pending"
    /\ SinkTexts(sink) = <<"h", "i">>
    /\ \E i \in 1..Len(consumed) : IsToolDelta(consumed[i])

\* C5: on [DONE] the accumulator is flushed iff it holds a non-empty function
\* name and the reduction becomes terminal; once [DONE] was consumed no further
\* message is consumed and neither the forwarded text nor the delivered tool
\* calls change.
C5_TerminatorStops ==
    [][ /\ (consumed' = Append(consumed, DoneMessage))
           => /\ stream_result' = "Ok"
              /\ tool_calls' =
                   IF current_tool_function_name # <<>>
                   THEN Append(tool_calls,
                               ToolCallNew(current_tool_function_name,
                                           ParseArgsOrDefault(current_tool_function_arguments),
                                           Some(current_tool_call_id)))
                   ELSE tool_calls
              /\ SinkToolCalls(sink') = tool_calls'
        /\ (\E i \in 1..Len(consumed) : consumed[i] = DoneMessage)
           => UNCHANGED <<consumed, sink, tool_calls>>
      ]_vars

\* the terminator flushed a pending call after an earlier one, and the run is over
C5_Witness ==
    /\ EndedOnDone
    /\ Len(tool_calls) = 2
    /\ SinkToolCalls(sink) = tool_calls
    /\ ~ ENABLED StreamNext

----------------------------------------------------------------------------
(* Claims about the synchronous path *)

RECURSIVE PartsOf(_)
\* the content parts of an output array, in document order
PartsOf(outputs) ==
    IF outputs = <<>> THEN <<>>
    ELSE (IF IsSome(Head(outputs).content) THEN Unwrap(Head(outputs).content) ELSE <<>>)
         \o PartsOf(Tail(outputs))

\* the text values of the output_text parts, in document order
TextsOf(parts) ==
    Concat([i \in 1..Len(parts) |->
              IF parts[i].type = "output_text" /\ IsSome(parts[i].text)
              THEN Unwrap(parts[i].text) ELSE <<>>])

\* C6: openai_extract_responses either fails with the invalid-response error,
\* which carries the raw payload, or returns an output whose text or whose
\* tool_calls is non-empty; it never returns an output with both empty.
C6_OutputNeverEmpty ==
    sync_pc = "extracted" =>
        \/ /\ sync_result.tag = "Err"
           /\ sync_result.error = "Invalid response data"
           /\ sync_result.payload = Some(reply)
        \/ /\ sync_result.tag = "Ok"
           /\ (sync_result.text # <<>> \/ sync_result.tool_calls # <<>>)

\* an output that is kept for its tool call alone, its text being empty
C6_Witness ==
    /\ sync_pc = "extracted"
    /\ sync_result.tag = "Ok"
    /\ sync_result.text = <<>>
    /\ Len(sync_result.tool_calls) = 1

\* C7: a reply whose top-level output array holds output_text parts with
\* non-empty text and no tool_code part is extracted successfully: the text is
\* the concatenation of those text values in document order, tool_calls is
\* empty.
C7_TopLevelOutputTextExtracted ==
    (/\ sync_pc = "extracted"
     /\ IsSome(reply.output)
     /\ \E i \in 1..Len(PartsOf(Unwrap(reply.output))) :
            /\ PartsOf(Unwrap(reply.output))[i].type = "output_text"
            /\ IsSome(PartsOf(Unwrap(reply.output))[i].text)
            /\ Unwrap(PartsOf(Unwrap(reply.output))[i].text) # <<>>
     /\ \A i \in 1..Len(PartsOf(Unwrap(reply.output))) :
            PartsOf(Unwrap(reply.output))[i].type # "tool_code")
    => /\ sync_result.tag = "Ok"
       /\ sync_result.text = TextsOf(PartsOf(Unwrap(reply.output)))
       /\ sync_result.tool_calls = <<>>

\* C8: for a reply with a non-2xx status openai_responses returns a failure,
\* never a ChatCompletionsOutput, even when the body would extract to a valid
\* output; the failure is not the extractor's.
C8_FailedStatusFails ==
    (sync_pc = "responded" /\ ~ (200 <= status /\ status <= 299))
    => /\ sync_result.tag = "Err"
       /\ sync_result.error # "Invalid response data"

\* a failed status on a body that extracts to a valid output
C8_Witness ==
    /\ sync_pc = "responded"
    /\ status = 404
    /\ reply.json
    /\ openai_extract_responses(reply).tag = "Ok"
    /\ sync_result.tag = "Err"

----------------------------------------------------------------------------
(* Claims about the request body builder *)

IsMarkerMessage(m) ==
    m.role = "Assistant" /\ m.content.kind = "Text" /\ StartsWith(m.content.text, Marker)

MarkerIndexes(ms) == {i \in 1..Len(ms) : IsMarkerMessage(ms[i])}

RECURSIVE WithoutMarkers(_)
WithoutMarkers(ms) ==
    IF ms = <<>> THEN <<>>
    ELSE (IF IsMarkerMessage(Head(ms)) THEN <<>> ELSE <<Head(ms)>>) \o WithoutMarkers(Tail(ms))

Maximum(S) == CHOOSE x \in S : \A y \in S : y <= x

\* t is r without its leading and trailing blanks
IsTrimOf(t, r) ==
    /\ t = <<>> \/ (t[1] # " " /\ t[Len(t)] # " ")
    /\ \E i \in 0..Len(r) :
          /\ i + Len(t) <= Len(r)
          /\ SubSeq(r, i + 1, i + Len(t)) = t
          /\ \A k \in 1..Len(r) : (k <= i \/ k > i + Len(t)) => r[k] = " "

\* C9: if Assistant text messages start with the marker "response_id:", the
\* body carries previous_response_id = the identifier that follows the marker
\* in the most recent of them, trimmed of surrounding whitespace, and these
\* messages contribute nothing to input; with no such message the field is
\* absent.
C9_ContinuationRoundTrip ==
    build_pc = "built" =>
        IF MarkerIndexes(data.messages) = {}
        THEN body.previous_response_id = None
        ELSE LET last == data.messages[Maximum(MarkerIndexes(data.messages))]
                 R == SubSeq(last.content.text, Len(Marker) + 1, Len(last.content.text))
             IN  /\ IsSome(body.previous_response_id)
                 /\ IsTrimOf(Unwrap(body.previous_response_id), R)
                 /\ body.input =
                      openai_build_responses_body(
                          [data EXCEPT !.messages = WithoutMarkers(data.messages)],
                          ModelName).input

\* two marker messages: the identifier of the later one is used, trimmed
C9_Witness ==
    /\ build_pc = "built"
    /\ Len(data.messages) = 2
    /\ data.messages[1] = [role |-> "Assistant", content |-> TextContent(Marker \o <<"x">>)]
    /\ data.messages[2] = [role |-> "Assistant", content |-> TextContent(Marker \o <<" ", "y", " ">>)]
    /\ body.previous_response_id = Some(<<"y">>)
    /\ body.input.value = <<>>

\* C10 as stated: for a conversation of exactly one text-only message, whatever
\* its role, input is a bare string equal to that message's text.
C10_SingleMessageAnyRole ==
    (/\ build_pc = "built"
     /\ Len(data.messages) = 1
     /\ data.messages[1].content.kind = "Text")
    => body.input = [type |-> "string", value |-> data.messages[1].content.text]

\* C10 as amended: for a conversation of exactly one text-only message, input
\* is a bare string; it equals the message's text when the message is a User
\* message or an Assistant message that does not start with the marker, and is
\* the empty string for a System message, a Tool message and an Assistant
\* marker message.
C10_SingleMessageByRole ==
    (/\ build_pc = "built"
     /\ Len(data.messages) = 1
     /\ data.messages[1].content.kind = "Text")
    => /\ body.input.type = "string"
       /\ body.input.value =
            IF \/ data.messages[1].role = "User"
               \/ /\ data.messages[1].role = "Assistant"
                  /\ ~ StartsWith(data.messages[1].content.text, Marker)
            THEN data.messages[1].content.text
            ELSE <<>>

\* a single User message whose text comes out unchanged, leading blank included
C10_Witness ==
    /\ build_pc = "built"
    /\ data.messages = <<[role |-> "User", content |-> TextContent(<<" ", "x">>)]>>
    /\ body.input = [type |-> "string", value |-> <<" ", "x">>]

RoleIndexes(ms, role) == {i \in 1..Len(ms) : ms[i].role = role}

RECURSIVE WithoutEarlierUsers(_, _)
\* ms without the User messages that precede position last
WithoutEarlierUsers(ms, last) ==
    IF ms = <<>> THEN <<>>
    ELSE (IF Head(ms).role = "User" /\ last > 1 THEN <<>> ELSE <<Head(ms)>>)
         \o WithoutEarlierUsers(Tail(ms), last - 1)

\* C11: the builder cuts the conversation at the latest User message: input is
\* rendered from that message and what follows it, so the User messages before
\* it contribute nothing to input.
C11_EarlierUserTextNotInInput ==
    (build_pc = "built" /\ RoleIndexes(data.messages, "User") # {})
    => body.input =
         openai_build_responses_body(
             [data EXCEPT !.messages =
                 WithoutEarlierUsers(data.messages,
                                     Maximum(RoleIndexes(data.messages, "User")))],
             ModelName).input

\* C12: the body carries at most one instructions string: with several System
\* messages it is the text of the most recent one only, with no System message
\* the field is absent.
C12_InstructionsFromLatestSystem ==
    build_pc = "built" =>
        IF RoleIndexes(data.messages, "System") = {}
        THEN body.instructions = None
        ELSE LET last == data.messages[Maximum(RoleIndexes(data.messages, "System"))]
             IN  to_text(last.content) # <<>>
                 => body.instructions = Some(to_text(last.content))

\* C13: when what is rendered into input (the latest User message and what
\* follows it) is two or more messages, input is an array with one
\* {role, content} object per message, in order, not a string.  (The case of
\* a single message with structured content is not among the conversations
\* of the model.)
C13_ArrayInputForSeveralMessages ==
    (/\ build_pc = "built"
     /\ RoleIndexes(data.messages, "User") # {}
     /\ Maximum(RoleIndexes(data.messages, "User")) < Len(data.messages)
     /\ \A i \in 1..Len(data.messages) : data.messages[i].content.kind = "Text")
    => /\ body.input.type = "array"
       /\ Len(body.input.value) =
            Len(data.messages) - Maximum(RoleIndexes(data.messages, "User")) + 1

\* C14: optional fields are omitted rather than emitted empty: instructions is
\* present iff some System text is non-empty, previous_response_id iff an
\* Assistant marker message exists, temperature and top_p iff supplied, stream
\* iff the flag is set and then with the value true; model and input are
\* always present.
C14_OptionalFieldsOmitted ==
    build_pc = "built" =>
        /\ IsSome(body.instructions)
             <=> (\E i \in RoleIndexes(data.messages, "System") :
                     to_text(data.messages[i].content) # <<>>)
        /\ IsSome(body.instructions) => Unwrap(body.instructions) # <<>>
        /\ IsSome(body.previous_response_id) <=> MarkerIndexes(data.messages) # {}
        /\ body.temperature = data.temperature
        /\ body.top_p = data.top_p
        /\ body.stream = (IF data.stream THEN Some(TRUE) ELSE None)
        /\ body.model = ModelName
        /\ body.input.type = "string"

\* nothing optional was supplied, an empty System text included: only model and input
C14_Witness ==
    /\ build_pc = "built"
    /\ data.messages = <<[role |-> "System", content |-> TextContent(<<>>)],
                         [role |-> "User", content |-> TextContent(<<"x">>)]>>
    /\ ~ data.stream /\ data.temperature = None /\ data.top_p = None
    /\ body.instructions = None /\ body.previous_response_id = None
    /\ body.temperature = None /\ body.top_p = None /\ body.stream = None
    /\ body.input.value = <<"x">>

----------------------------------------------------------------------------
(* Further claims about the streaming reduction *)

IsPrefix(s, t) == Len(s) <= Len(t) /\ SubSeq(t, 1, Len(s)) = s

Failed == stream_result \in {"ErrParse", "ErrSink", "ErrTransport", "Panic"}

\* m is a tool-call delta whose part makes line 147 panic
Panics(m) == IsToolDelta(m) /\ IsSome(m.part) /\ Unwrap(m.part).missing_key

\* C15: a payload that is neither [DONE] nor JSON fails the reduction with the
\* parse error; no further message is consumed after it, and what the sink
\* received before stays: the sink's log only ever grows at its end.
C15_MalformedFailsKeepsText ==
    [][ /\ (consumed' = Append(consumed, MalformedMessage))
           => (stream_result' = "ErrParse" /\ sink' = sink /\ tool_calls' = tool_calls)
        /\ (\E i \in 1..Len(consumed) : consumed[i] = MalformedMessage)
           => UNCHANGED <<consumed, sink, tool_calls, stream_result>>
        /\ IsPrefix(sink, sink')
      ]_vars

\* the reduction failed on a malformed payload after text had been forwarded
C15_Witness ==
    /\ stream_result = "ErrParse"
    /\ consumed[Len(consumed)] = MalformedMessage
    /\ SinkTexts(sink) = <<"h", "i">>
    /\ ~ ENABLED StreamNext

\* C16: a flush, on an item-id change or on the terminator, whose accumulated
\* argument text is not valid JSON (the empty text included) still produces a
\* ToolCall with the accumulated name, the previous item id and the default
\* (null) arguments; the stream is not aborted: the reduction goes on after an
\* item-id change (unless the new item's part itself makes the closure panic)
\* and ends with Ok on the terminator.
C16_UnparsableArgumentsFlushed ==
    [][ (/\ Len(consumed') = Len(consumed) + 1
         /\ current_tool_function_name # <<>>
         /\ ~ IsSome(serde_json_from_str(current_tool_function_arguments))
         /\ LET m == consumed'[Len(consumed')]
            IN  \/ m = DoneMessage
                \/ /\ IsToolDelta(m) /\ IsSome(m.item_id)
                   /\ Unwrap(m.item_id) # current_tool_call_id)
        => /\ tool_calls' =
                Append(tool_calls,
                       [name |-> current_tool_function_name, arguments |-> JsonNull,
                        id |-> Some(current_tool_call_id)])
           /\ stream_result' =
                (IF consumed'[Len(consumed')] = DoneMessage THEN "Ok"
                 ELSE IF Panics(consumed'[Len(consumed')]) THEN "Panic" ELSE "pending")
      ]_vars

\* a call whose arguments "]" did not parse was flushed by an item-id change,
\* and a later text delta was forwarded
C16_Witness ==
    /\ stream_result = "pending"
    /\ Len(consumed) = 3
    /\ ArgsFragmentOf(consumed[1]) = <<"]">>
    /\ tool_calls = << [name |-> <<"g">>, arguments |-> JsonNull, id |-> Some("a")] >>
    /\ IsTextDelta(consumed[3])
    /\ SinkTexts(sink) = <<"h">>

\* C17: a JSON event whose type is neither response.output_text.delta nor
\* response.tool_code.delta leaves the accumulator, the completed tool calls
\* and the sink unchanged and does not fail or end the reduction.
C17_UnknownEventIsNoOp ==
    [][ (/\ Len(consumed') = Len(consumed) + 1
         /\ consumed'[Len(consumed')].data = "json"
         /\ ~ IsTextDelta(consumed'[Len(consumed')])
         /\ ~ IsToolDelta(consumed'[Len(consumed')]))
        => /\ UNCHANGED <<current_tool_call_id, current_tool_function_name,
                          current_tool_function_arguments, tool_calls, sink>>
           /\ stream_result' = "pending"
      ]_vars

\* an unknown event arrived while a call was being accumulated, and the call
\* was completed afterwards
C17_Witness ==
    /\ stream_result = "Ok"
    /\ Len(consumed) = 3
    /\ consumed[2] = OtherMessage
    /\ consumed[3] = DoneMessage
    /\ SinkToolCalls(sink) = << [name |-> <<"g">>, arguments |-> JsonNull, id |-> Some("a")] >>

\* C18: no ToolCall reaches the sink while messages are still being consumed,
\* and in the sink's log every text fragment precedes every ToolCall.
C18_ToolCallsAfterStreamEnd ==
    /\ stream_result = "pending" => SinkToolCalls(sink) = <<>>
    /\ \A i \in 1..Len(sink) : \A j \in 1..Len(sink) :
          (sink[i].op = "tool_call" /\ sink[j].op = "text") => j < i

\* a call completed by an item-id change, then a text delta, then the end of
\* the stream: the text is first in the sink's log
C18_Witness ==
    /\ stream_result = "Ok"
    /\ Len(consumed) = 3
    /\ IsToolDelta(consumed[1])
    /\ IsToolDelta(consumed[2])
    /\ IsTextDelta(consumed[3])
    /\ Len(sink) = 2
    /\ sink[1].op = "text"
    /\ sink[2].op = "tool_call"

\* C19: when the reduction fails (malformed payload, sink error on a text
\* fragment, transport error, and also a panic of the closure) the sink
\* receives no ToolCall at all, not even the calls an item-id change had
\* completed before.
C19_NoToolCallsOnFailure == Failed => SinkToolCalls(sink) = <<>>

\* a run that failed on a malformed payload with a completed call in hand
C19_Witness ==
    /\ stream_result = "ErrParse"
    /\ Len(tool_calls) = 1
    /\ SinkToolCalls(sink) = <<>>

RECURSIVE ToolDeltasOf(_)
\* the tool-call deltas of h, in order
ToolDeltasOf(h) ==
    IF h = <<>> THEN <<>>
    ELSE (IF IsToolDelta(Head(h)) THEN <<Head(h)>> ELSE <<>>) \o ToolDeltasOf(Tail(h))

RECURSIVE NamedCalls(_)
\* the calls of the groups gs that have a non-empty name, in order
NamedCalls(gs) ==
    IF gs = <<>> THEN <<>>
    ELSE (IF NameOfGroup(Head(gs)) # <<>> THEN <<CallOfGroup(Head(gs))>> ELSE <<>>)
         \o NamedCalls(Tail(gs))

\* C20: every delivered ToolCall has a non-empty name and an id that is
\* present; when every tool-call delta carries an item id, the delivered calls
\* are calls of the items that have a name, each with its own item's
\* argument fragments only: an item with argument fragments and no name is
\* never emitted and its argument text is in no other call.
C20_OnlyNamedItemsDelivered ==
    /\ \A i \in 1..Len(SinkToolCalls(sink)) :
          /\ SinkToolCalls(sink)[i].name # <<>>
          /\ IsSome(SinkToolCalls(sink)[i].id)
    /\ AllToolDeltasWithId(ToolDeltasOf(consumed))
       => IsPrefix(SinkToolCalls(sink), NamedCalls(GroupsOf(ToolDeltasOf(consumed))))

\* item a brought only the argument fragment "[", the next item a name and
\* the fragment "]": one call, with arguments that did not parse
C20_Witness ==
    /\ EndedOnDone
    /\ Len(consumed) = 3
    /\ consumed[1].item_id = Some("a")
    /\ NameFragmentOf(consumed[1]) = <<>>
    /\ ArgsFragmentOf(consumed[1]) = <<"[">>
    /\ consumed[2].item_id = Some("")
    /\ ArgsFragmentOf(consumed[2]) = <<"]">>
    /\ SinkToolCalls(sink) = << [name |-> <<"g">>, arguments |-> JsonNull, id |-> Some("")] >>

====
